---- MODULE Spec2Model ----
(***************************************************************************)
(* Model of nodriver/core/util.py: the tree helpers filter_recurse_all,    *)
(* filter_recurse, remove_from_tree and html_from_tree, and the registry   *)
(* teardown deconstruct_browser.                                           *)
(*                                                                         *)
(* Python objects live in a heap: a node is a heap address (0..MaxNodes),  *)
(* `children` maps an address to the list its .children attribute holds,   *)
(* so that remove_from_tree's in-place list mutation is a heap update.     *)
(***************************************************************************)
EXTENDS Integers, Sequences, FiniteSets, TLC

\* Largest number of nodes below the root of a generated tree.
MaxNodes == 5
\* backend_node_id values are drawn from 1..MaxId.
MaxId == 2
\* Largest number of nodes below the root of a tree given to html_from_tree.
MaxHtmlNodes == 4
\* A fetch completes after 0..MaxLatency ticks.
MaxLatency == 2
\* Largest number of handles in the registry.
MaxHandles == 2

VARIABLES
    children,         \* heap: node address -> its .children list
    nodes,            \* the addresses allocated to the tree (0 is the root)
    backend_node_id,  \* node address -> .backend_node_id
    predicate,        \* the predicate argument, as the set of nodes it accepts
    fn,               \* the helper that was called last ("idle" before any call)
    doc,              \* the doc / tree argument of that call
    node_id,          \* node.backend_node_id of remove_from_tree's node argument
    out,              \* the value the call returned (a list)
    raised,           \* the exception the call raised, "" when none
    is_element,       \* node address -> isinstance(node, Element)
    frames,           \* html_from_tree: the stack of suspended calls, innermost last
    pending,          \* html_from_tree: the awaited fetch, <<>> when none
    last_latency,     \* history: the latency of the fetch awaited last
    slower_first,     \* history: some fetch was slower than the one after it

    registry,         \* __registered__instances__: the registered handles
    stopped,          \* handle -> its .stopped flag
    config,           \* handle -> "None", or who owns config.user_data_dir
    dir_exists,       \* handle -> config.user_data_dir is on disk
    pc,               \* deconstruct_browser: the position of the call
    todo,             \* the handles the for loop has not reached yet
    cur,              \* the handle the for loop is at (0 before the first)
    attempt,          \* the retry loop's variable
    exc,              \* the exception that left deconstruct_browser, "" when none
    dir_at_call,      \* history: dir_exists when deconstruct_browser was called
    stop_calls,       \* history: handle -> number of stop() calls
    rmtree_calls,     \* history: handle -> number of shutil.rmtree calls
    rmtree_ok,        \* history: handle -> number of rmtree calls that returned
    after_ok,         \* history: handle -> rmtree calls issued after one returned
    only_locked,      \* history: handle -> every rmtree call raised PermissionError
    last_error,       \* history: what the latest rmtree call raised, "" if nothing
    sleeps,           \* history: handle -> number of time.sleep(0.15) calls
    debug_logs,       \* history: handle -> number of logger.debug records
    info_logs         \* history: handle -> number of logger.info records

treeVars == <<children, nodes, backend_node_id, predicate, fn, doc, node_id, out, raised>>
htmlVars == <<is_element, frames, pending, last_latency, slower_first>>
handleVars == <<registry, stopped, config>>
drainVars == <<dir_exists, pc, todo, cur, attempt, exc>>
historyVars == <<dir_at_call, stop_calls, rmtree_calls, rmtree_ok, after_ok,
                 only_locked, last_error, sleeps, debug_logs, info_logs>>
registryVars == <<handleVars, drainVars, historyVars>>
vars == <<treeVars, htmlVars, registryVars>>

Addresses == 0..MaxNodes
\* An object that has no .children attribute (hasattr(doc, "children") is False).
NoChildrenObj == MaxNodes + 1
Ids == 1..MaxId

----------------------------------------------------------------------------
(* Tree inputs.  A shape gives every non-root node a parent of smaller      *)
(* address; siblings are listed by ascending address.  Every ordered tree   *)
(* with at most MaxNodes descendants has such a numbering.                  *)

RECURSIVE SortedSeq(_)
SortedSeq(S) ==
    IF S = {} THEN <<>>
    ELSE LET m == CHOOSE x \in S : \A y \in S : x <= y
         IN <<m>> \o SortedSeq(S \ {m})

Shapes(n) == {par \in [1..n -> 0..MaxNodes] : \A i \in 1..n : par[i] < i}

HeapOf(n, par) ==
    [k \in Addresses |-> SortedSeq({i \in 1..n : par[i] = k})]

Range(s) == {s[i] : i \in 1..Len(s)}

----------------------------------------------------------------------------
(* filter_recurse_all, util.py 167-189 *)

RECURSIVE filter_recurse_all_loop(_, _, _, _)
RECURSIVE filter_recurse_all(_, _, _)
RECURSIVE filter_recurse_all_loop_norecurse(_, _, _, _)

\* A faulty variant: `elif`-style, a matching child is not searched further.
filter_recurse_all_loop_norecurse(ch, d, P, i) ==
    IF i > Len(ch[d]) THEN <<>>
    ELSE LET child == ch[d][i]
         IN (IF child \in P THEN <<child>> ELSE filter_recurse_all(ch, child, P))
            \o filter_recurse_all_loop_norecurse(ch, d, P, i + 1)

\* for child in doc.children, from the i-th child on (lines 182-186)
filter_recurse_all_loop(ch, d, P, i) ==
    IF i > Len(ch[d]) THEN <<>>
    ELSE LET child == ch[d][i]
         IN (IF child \in P THEN <<child>> ELSE <<>>)
            \o filter_recurse_all(ch, child, P)
            \o filter_recurse_all_loop(ch, d, P, i + 1)

\* lines 180-189; a node object is truthy, an empty .children list is falsy
filter_recurse_all(ch, d, P) ==
    IF ch[d] # <<>> THEN filter_recurse_all_loop(ch, d, P, 1) ELSE <<>>

----------------------------------------------------------------------------
(* filter_recurse, util.py 192-210.  The return value is a list of at most  *)
(* one node: <<>> stands for the implicit None.                             *)

RECURSIVE filter_recurse_loop(_, _, _, _)
RECURSIVE filter_recurse(_, _, _)
RECURSIVE filter_recurse_loop_postorder(_, _, _, _)

\* A faulty variant: the child's subtree is searched before the child is tested.
filter_recurse_loop_postorder(ch, d, P, i) ==
    IF i > Len(ch[d]) THEN <<>>
    ELSE LET child == ch[d][i]
             result == filter_recurse(ch, child, P)
         IN IF result # <<>> THEN result
            ELSE IF child \in P THEN <<child>>
            ELSE filter_recurse_loop_postorder(ch, d, P, i + 1)

\* for child in doc.children, from the i-th child on (lines 204-210)
filter_recurse_loop(ch, d, P, i) ==
    IF i > Len(ch[d]) THEN <<>>
    ELSE LET child == ch[d][i]
         IN IF child \in P THEN <<child>>
            ELSE LET result == filter_recurse(ch, child, P)
                 IN IF result # <<>> THEN result
                    ELSE filter_recurse_loop(ch, d, P, i + 1)

\* lines 203-210
filter_recurse(ch, d, P) ==
    IF ch[d] # <<>> THEN filter_recurse_loop(ch, d, P, 1) ELSE <<>>

----------------------------------------------------------------------------
(* remove_from_tree, util.py 213-222 *)

\* list.remove(x): drops the first element equal to x (node equality is
\* address equality here: every node of a tree is a distinct object)
RECURSIVE ListRemove(_, _)
ListRemove(s, x) ==
    IF s = <<>> THEN <<>>
    ELSE IF Head(s) = x THEN Tail(s)
    ELSE <<Head(s)>> \o ListRemove(Tail(s), x)

RECURSIVE remove_from_tree_loop(_, _, _, _)
RECURSIVE remove_from_tree(_, _, _)

\* for child in tree.children (lines 218-221).  Python's list iterator keeps
\* an index into the live list: the i-th step reads tree.children[i] of the
\* list as it is then, and the loop ends when i passes its current length.
remove_from_tree_loop(ch, t, id, i) ==
    IF i > Len(ch[t]) THEN ch
    ELSE LET child == ch[t][i]
             ch1 == IF backend_node_id[child] = id
                    THEN [ch EXCEPT ![t] = ListRemove(@, child)]
                    ELSE ch
             ch2 == remove_from_tree(ch1, child, id)
         IN remove_from_tree_loop(ch2, t, id, i + 1)

\* lines 217-222: the heap after the call (the call returns tree itself)
remove_from_tree(ch, t, id) ==
    IF ch[t] # <<>> THEN remove_from_tree_loop(ch, t, id, 1) ELSE ch

----------------------------------------------------------------------------
(* Operations *)

Idle ==
    /\ fn = "idle"

\* filter_recurse_all(doc, predicate)
FilterRecurseAll ==
    /\ Idle
    /\ \E d \in nodes \cup {NoChildrenObj} :
          /\ doc' = d
          /\ IF d = NoChildrenObj
             THEN out' = <<>> /\ raised' = "TypeError"
             ELSE out' = filter_recurse_all(children, d, predicate) /\ raised' = ""
    /\ fn' = "filter_recurse_all"
    /\ UNCHANGED <<children, nodes, backend_node_id, predicate, node_id>>
    /\ UNCHANGED <<htmlVars, registryVars>>

\* filter_recurse(doc, predicate)
FilterRecurse ==
    /\ Idle
    /\ \E d \in nodes \cup {NoChildrenObj} :
          /\ doc' = d
          /\ IF d = NoChildrenObj
             THEN out' = <<>> /\ raised' = "TypeError"
             ELSE out' = filter_recurse(children, d, predicate) /\ raised' = ""
    /\ fn' = "filter_recurse"
    /\ UNCHANGED <<children, nodes, backend_node_id, predicate, node_id>>
    /\ UNCHANGED <<htmlVars, registryVars>>

\* remove_from_tree(tree, node)
RemoveFromTree ==
    /\ Idle
    /\ \E t \in nodes \cup {NoChildrenObj}, id \in Ids :
          /\ doc' = t
          /\ node_id' = id
          /\ IF t = NoChildrenObj
             THEN children' = children /\ raised' = "TypeError"
             ELSE children' = remove_from_tree(children, t, id) /\ raised' = ""
    /\ fn' = "remove_from_tree"
    /\ UNCHANGED <<nodes, backend_node_id, predicate, out>>
    /\ UNCHANGED <<htmlVars, registryVars>>

----------------------------------------------------------------------------
(* Document order, stated from the parent relation and child positions      *)
(* rather than by a traversal.                                              *)

HasParent(ch, n) == \E p \in Addresses : n \in Range(ch[p])
ParentOf(ch, n) == CHOOSE p \in Addresses : n \in Range(ch[p])
PositionIn(s, x) == CHOOSE i \in 1..Len(s) : s[i] = x

RECURSIVE AncestorsOf(_, _)
AncestorsOf(ch, n) ==
    IF HasParent(ch, n)
    THEN {ParentOf(ch, n)} \cup AncestorsOf(ch, ParentOf(ch, n))
    ELSE {}

\* the nodes strictly below d
StrictSubtree(ch, d) == {n \in Addresses : d \in AncestorsOf(ch, n)}

\* the child positions leading from d down to n
RECURSIVE PathFrom(_, _, _)
PathFrom(ch, d, n) ==
    IF n = d THEN <<>>
    ELSE Append(PathFrom(ch, d, ParentOf(ch, n)),
                PositionIn(ch[ParentOf(ch, n)], n))

\* p comes before q: p is a proper prefix of q, or p branches off to the left
PathBefore(p, q) ==
    \E k \in 0..Len(p) :
        /\ k <= Len(q)
        /\ \A i \in 1..k : p[i] = q[i]
        /\ \/ k = Len(p) /\ k < Len(q)
           \/ k < Len(p) /\ k < Len(q) /\ p[k + 1] < q[k + 1]

\* a comes before b in the document order of d's subtree
DocBefore(ch, d, a, b) == PathBefore(PathFrom(ch, d, a), PathFrom(ch, d, b))

----------------------------------------------------------------------------
(* Claims about the search helpers *)

\* C1: filter_recurse_all(T, P) returns exactly the nodes strictly below T
\* that satisfy P, in document (pre-order) order, each exactly once; on a tree
\* with no children it returns the empty list.
C1_FilterRecurseAllExact ==
    (fn = "filter_recurse_all" /\ raised = "") =>
        /\ Range(out) = StrictSubtree(children, doc) \cap predicate
        /\ \A i, j \in 1..Len(out) :
              i < j => DocBefore(children, doc, out[i], out[j])
        /\ (children[doc] = <<>> => out = <<>>)

\* a call that returned three or more nodes, one of them a grandchild of doc,
\* in an order that is not the order of the addresses, and that left a node out
C1_Witness ==
    /\ fn = "filter_recurse_all" /\ raised = ""
    /\ Len(out) >= 3
    /\ \E i \in 1..Len(out) : ParentOf(children, out[i]) # doc
    /\ \E i, j \in 1..Len(out) : i < j /\ out[i] > out[j]
    /\ StrictSubtree(children, doc) \ predicate # {}

\* C2: filter_recurse(T, P) returns the first element of
\* filter_recurse_all(T, P), and None if and only if that list is empty.
C2_FilterRecurseIsFirst ==
    (fn = "filter_recurse" /\ raised = "") =>
        LET all == filter_recurse_all(children, doc, predicate)
        IN /\ (out = <<>>) <=> (all = <<>>)
           /\ all # <<>> => out = <<Head(all)>>

\* a call that found its first match below a non-matching child, after an
\* earlier sibling subtree without a match, with further matches behind it
C2_Witness ==
    /\ fn = "filter_recurse" /\ raised = ""
    /\ out # <<>>
    /\ ParentOf(children, out[1]) # doc
    /\ Len(children[doc]) >= 2
    /\ out[1] \notin StrictSubtree(children, children[doc][1]) \cup {children[doc][1]}
    /\ Len(filter_recurse_all(children, doc, predicate)) >= 2

----------------------------------------------------------------------------
(* Claim about remove_from_tree *)

\* the nodes still reachable from t
ReachableFrom(ch, t) == {t} \cup StrictSubtree(ch, t)

\* C3: after one call remove_from_tree(tree, target), no node still reachable
\* from tree has a direct child whose backend_node_id equals target's.
C3_RemovedAtEveryDepth ==
    (fn = "remove_from_tree" /\ raised = "") =>
        \A n \in ReachableFrom(children, doc) :
            \A i \in 1..Len(children[n]) :
                backend_node_id[children[n][i]] # node_id

----------------------------------------------------------------------------
(* html_from_tree, util.py 225-238.  The coroutine is run one step at a     *)
(* time: a frame is one activation (its tree, the position of its for loop, *)
(* its local `out`); `pending` is the fetch the innermost frame awaits.     *)

\* The text a fetch returns is kept as a token naming the call that made it:
\* child.get_html() of an Element (line 232), or the transport's answer to
\* cdp.dom.get_outer_html(backend_node_id=child.backend_node_id) (234-236).
OwnMarkup(child) ==
    IF is_element[child]
    THEN [via |-> "get_html", of |-> child]
    ELSE [via |-> "get_outer_html", of |-> backend_node_id[child]]

\* A faulty variant: the new text is put in front of what was collected so far.
Concat_prepend(text, more) == more \o text

\* out += more
Concat(text, more) == text \o more

Top == frames[Len(frames)]

\* await html_from_tree(tree, target) is entered by the caller
HtmlCall ==
    /\ Idle
    /\ \E t \in nodes \cup {NoChildrenObj} :
          /\ doc' = t
          /\ IF t = NoChildrenObj
             THEN frames' = <<>> /\ raised' = "TypeError"
             ELSE frames' = <<[tree |-> t, i |-> 1, out |-> <<>>]>> /\ raised' = ""
    /\ fn' = "html_from_tree"
    /\ UNCHANGED <<children, nodes, backend_node_id, predicate, node_id, out>>
    /\ UNCHANGED <<is_element, pending, last_latency, slower_first, registryVars>>

\* lines 230-236: the loop takes the next child and awaits its own markup
HtmlRequest ==
    /\ frames # <<>> /\ pending = <<>>
    /\ Top.i <= Len(children[Top.tree])
    /\ \E l \in 0..MaxLatency :
          /\ pending' = <<[child |-> children[Top.tree][Top.i], latency |-> l]>>
          /\ last_latency' = l
          /\ slower_first' = (slower_first \/ last_latency > l)
    /\ UNCHANGED <<treeVars, is_element, frames, registryVars>>

\* time passes while the fetch is outstanding
HtmlTick ==
    /\ pending # <<>>
    /\ pending[1].latency > 0
    /\ pending' = <<[pending[1] EXCEPT !.latency = @ - 1]>>
    /\ UNCHANGED <<treeVars, is_element, frames, last_latency, slower_first, registryVars>>

\* the fetch completes: out += <markup>, then line 237 enters the child
HtmlResponse ==
    /\ pending # <<>>
    /\ pending[1].latency = 0
    /\ frames' = Append(
          [frames EXCEPT ![Len(frames)].out = Concat(@, <<OwnMarkup(pending[1].child)>>)],
          [tree |-> pending[1].child, i |-> 1, out |-> <<>>])
    /\ pending' = <<>>
    /\ UNCHANGED <<treeVars, is_element, last_latency, slower_first, registryVars>>

\* the fetch fails: the exception unwinds every frame
HtmlFetchError ==
    /\ pending # <<>>
    /\ raised' = "TransportError"
    /\ frames' = <<>>
    /\ pending' = <<>>
    /\ UNCHANGED <<children, nodes, backend_node_id, predicate, fn, doc, node_id, out>>
    /\ UNCHANGED <<is_element, last_latency, slower_first, registryVars>>

\* line 238: the loop is over (or was never entered); return out.  The
\* caller's frame resumes at line 237 with out += <returned text>.
HtmlReturn ==
    /\ frames # <<>> /\ pending = <<>>
    /\ Top.i > Len(children[Top.tree])
    /\ IF Len(frames) = 1
       THEN /\ out' = Top.out
            /\ frames' = <<>>
       ELSE /\ out' = out
            /\ frames' = [SubSeq(frames, 1, Len(frames) - 1)
                            EXCEPT ![Len(frames) - 1] =
                               [@ EXCEPT !.out = Concat(@, Top.out), !.i = @ + 1]]
    /\ UNCHANGED <<children, nodes, backend_node_id, predicate, fn, doc, node_id, raised>>
    /\ UNCHANGED <<is_element, pending, last_latency, slower_first, registryVars>>

HtmlReturned == fn = "html_from_tree" /\ frames = <<>> /\ raised = ""

----------------------------------------------------------------------------
(* Claim about html_from_tree *)

\* the node a markup token was fetched for
NodeOf(tok) ==
    IF tok.via = "get_html" THEN tok.of
    ELSE CHOOSE n \in nodes : backend_node_id[n] = tok.of

\* C8: html_from_tree returns, in document (pre-order) order, the own markup
\* of every node strictly below the tree, each from the local Element
\* capability or from the remote fetch as the node's kind says, whatever the
\* fetch latencies were; a tree with no children yields the empty string.
C8_HtmlInDocumentOrder ==
    HtmlReturned =>
        /\ Len(out) = Cardinality(StrictSubtree(children, doc))
        /\ \A i \in 1..Len(out) :
              /\ NodeOf(out[i]) \in StrictSubtree(children, doc)
              /\ (out[i].via = "get_html") <=> is_element[NodeOf(out[i])]
        /\ \A i, j \in 1..Len(out) :
              i < j => DocBefore(children, doc, NodeOf(out[i]), NodeOf(out[j]))
        /\ (children[doc] = <<>> => out = <<>>)

\* a finished call over three nodes, local and remote, one of them a
\* grandchild, in which a fetch took longer than the fetch after it
C8_Witness ==
    /\ HtmlReturned
    /\ Len(out) >= 3
    /\ \E i, j \in 1..Len(out) : out[i].via = "get_html" /\ out[j].via = "get_outer_html"
    /\ \E i \in 1..Len(out) : ParentOf(children, NodeOf(out[i])) # doc
    /\ slower_first

----------------------------------------------------------------------------
(* deconstruct_browser, util.py 89-111 *)

Handles == 1..MaxHandles

\* for attempt in range(5), line 95
Attempts == 5
\* if attempt == 4, line 102
LastAttempt == 4

\* A faulty variant: the ownership flag is not consulted.
OwnsDir_any_config(h) == config[h] # "None"

\* line 97: _.config and not _.config.custom_data_dir
OwnsDir(h) == config[h] = "owned"

\* What shutil.rmtree(path, ignore_errors=False) can do (line 98): a missing
\* path raises FileNotFoundError; an existing one is removed, or the call
\* raises PermissionError, another OSError, or an exception outside OSError.
RmtreeOutcomes(h) ==
    IF dir_exists[h]
    THEN {"ok", "PermissionError", "OSError", "Exception"}
    ELSE {"FileNotFoundError"}

\* A faulty variant: no clause of its own for FileNotFoundError, which is an OSError.
ExceptClause_no_not_found(e) ==
    IF e \in {"FileNotFoundError", "PermissionError", "OSError"} THEN "retry"
    ELSE "propagate"

\* A faulty variant: the second clause catches every exception.
ExceptClause_catch_all(e) ==
    IF e = "FileNotFoundError" THEN "break" ELSE "retry"

\* lines 99-101: the except clause that takes an exception of class e
ExceptClause(e) ==
    IF e = "FileNotFoundError" THEN "break"
    ELSE IF e \in {"PermissionError", "OSError"} THEN "retry"
    ELSE "propagate"

\* A faulty variant: the diagnostic branch is taken one attempt early.
GivesUp_early(a) == a = LastAttempt - 1

\* line 102
GivesUp(a) == a = LastAttempt

Bump(f, h) == [f EXCEPT ![h] = @ + 1]

\* deconstruct_browser() is called
DrainCall ==
    /\ pc = "idle"
    /\ pc' = "for"
    /\ todo' = registry
    /\ dir_at_call' = dir_exists
    /\ UNCHANGED <<treeVars, htmlVars, handleVars, dir_exists, cur, attempt, exc>>
    /\ UNCHANGED <<stop_calls, rmtree_calls, rmtree_ok, after_ok, only_locked,
                   last_error, sleeps, debug_logs, info_logs>>

\* line 92: the for loop takes a handle; a set is iterated in no set order
DrainNext ==
    /\ pc = "for"
    /\ \E h \in todo :
          /\ cur' = h
          /\ todo' = todo \ {h}
    /\ pc' = "stop"
    /\ UNCHANGED <<treeVars, htmlVars, handleVars, dir_exists, attempt, exc, historyVars>>

\* line 92: the set is exhausted, the function returns
DrainReturn ==
    /\ pc = "for"
    /\ todo = {}
    /\ pc' = "done"
    /\ UNCHANGED <<treeVars, htmlVars, handleVars, dir_exists, todo, cur, attempt, exc,
                   historyVars>>

\* lines 93-94: stop() returns, or raises and nothing catches it
DrainStop ==
    /\ pc = "stop"
    /\ IF stopped[cur]
       THEN /\ pc' = "try"
            /\ attempt' = 0
            /\ UNCHANGED <<stopped, stop_calls, exc>>
       ELSE /\ stop_calls' = Bump(stop_calls, cur)
            /\ \/ /\ stopped' = [stopped EXCEPT ![cur] = TRUE]
                  /\ pc' = "try"
                  /\ attempt' = 0
                  /\ exc' = exc
               \/ /\ stopped' = stopped
                  /\ pc' = "raised"
                  /\ attempt' = attempt
                  /\ exc' = "StopError"
    /\ UNCHANGED <<treeVars, htmlVars, registry, config, dir_exists, todo, cur>>
    /\ UNCHANGED <<dir_at_call, rmtree_calls, rmtree_ok, after_ok, only_locked,
                   last_error, sleeps, debug_logs, info_logs>>

\* the for loop of line 95 goes on to its next attempt, or is exhausted
NextAttempt ==
    IF attempt + 1 < Attempts
    THEN pc' = "try" /\ attempt' = attempt + 1
    ELSE pc' = "info" /\ attempt' = attempt

\* lines 96-108: one pass of the try statement
DrainTry ==
    /\ pc = "try"
    /\ IF ~OwnsDir(cur)
       THEN /\ NextAttempt
            /\ UNCHANGED <<dir_exists, exc, rmtree_calls, rmtree_ok, after_ok,
                           only_locked, last_error, debug_logs>>
       ELSE \E o \in RmtreeOutcomes(cur) :
            /\ rmtree_calls' = Bump(rmtree_calls, cur)
            /\ after_ok' = IF rmtree_ok[cur] > 0 THEN Bump(after_ok, cur) ELSE after_ok
            /\ only_locked' = [only_locked EXCEPT ![cur] = @ /\ o = "PermissionError"]
            /\ last_error' = IF o = "ok" THEN "" ELSE o
            /\ IF o = "ok"
               THEN /\ dir_exists' = [dir_exists EXCEPT ![cur] = FALSE]
                    /\ rmtree_ok' = Bump(rmtree_ok, cur)
                    /\ NextAttempt
                    /\ UNCHANGED <<exc, debug_logs>>
               ELSE /\ UNCHANGED <<dir_exists, rmtree_ok>>
                    /\ CASE ExceptClause(o) = "break" ->
                              /\ pc' = "info"
                              /\ UNCHANGED <<attempt, exc, debug_logs>>
                         [] ExceptClause(o) = "retry" ->
                              /\ IF GivesUp(attempt)
                                 THEN /\ debug_logs' = Bump(debug_logs, cur)
                                      /\ pc' = "info"
                                 ELSE /\ debug_logs' = debug_logs
                                      /\ pc' = "sleep"
                              /\ UNCHANGED <<attempt, exc>>
                         [] OTHER ->
                              /\ pc' = "raised"
                              /\ exc' = o
                              /\ UNCHANGED <<attempt, debug_logs>>
    /\ UNCHANGED <<treeVars, htmlVars, handleVars, todo, cur>>
    /\ UNCHANGED <<dir_at_call, stop_calls, sleeps, info_logs>>

\* lines 109-110: time.sleep(0.15); continue
DrainSleep ==
    /\ pc = "sleep"
    /\ sleeps' = Bump(sleeps, cur)
    /\ NextAttempt
    /\ UNCHANGED <<treeVars, htmlVars, handleVars, dir_exists, todo, cur, exc>>
    /\ UNCHANGED <<dir_at_call, stop_calls, rmtree_calls, rmtree_ok, after_ok,
                   only_locked, last_error, debug_logs, info_logs>>

\* line 111: logger.info(..., _.config.user_data_dir)
DrainInfo ==
    /\ pc = "info"
    /\ IF config[cur] = "None"
       THEN /\ pc' = "raised"
            /\ exc' = "AttributeError"
            /\ info_logs' = info_logs
       ELSE /\ pc' = "for"
            /\ exc' = exc
            /\ info_logs' = Bump(info_logs, cur)
    /\ UNCHANGED <<treeVars, htmlVars, handleVars, dir_exists, todo, cur, attempt>>
    /\ UNCHANGED <<dir_at_call, stop_calls, rmtree_calls, rmtree_ok, after_ok,
                   only_locked, last_error, sleeps, debug_logs>>

----------------------------------------------------------------------------
(* Claims about deconstruct_browser *)

Ended == pc \in {"done", "raised"}

\* the for loop is past handle h
Finished(h) ==
    /\ h \in registry /\ h \notin todo /\ pc \notin {"idle", "unused"}
    /\ cur # h \/ pc \in {"for", "done"}

\* the retry loop of handle h has been entered and left
LoopOver(h) ==
    \/ Finished(h)
    \/ cur = h /\ pc = "info"
    \/ cur = h /\ pc = "raised" /\ exc # "StopError"

\* C4: a stop() that raises does not abort the drain: when the call ends,
\* every other handle of the registry has been processed (stopped, or stop()
\* called on it, and the removal of its engine-owned directory attempted).
C4_StopFailureDoesNotAbort ==
    (Ended /\ exc \in {"", "StopError"}) =>
        \A h \in registry \ (IF exc = "StopError" THEN {cur} ELSE {}) :
            /\ stopped[h] \/ stop_calls[h] > 0
            /\ OwnsDir(h) => rmtree_calls[h] > 0

C6_LockedDirFiveAttempts ==
    \A h \in registry :
        (OwnsDir(h) /\ rmtree_calls[h] > 0 /\ only_locked[h]) =>
            /\ rmtree_calls[h] <= Attempts
            /\ debug_logs[h] = (IF LoopOver(h) THEN 1 ELSE 0)
            /\ (cur = h /\ pc = "sleep") => sleeps[h] = rmtree_calls[h] - 1
            /\ (cur = h /\ pc = "try") => sleeps[h] = rmtree_calls[h]
            /\ LoopOver(h) =>
                  /\ rmtree_calls[h] = 5
                  /\ sleeps[h] = 4
                  /\ ~(pc = "raised" /\ cur = h)
                  /\ Finished(h) \/ (cur = h /\ pc = "info")

\* the locked handle is done with and the for loop is at another handle
C6_Witness ==
    \E h \in registry :
        /\ OwnsDir(h) /\ only_locked[h] /\ rmtree_calls[h] = 5
        /\ Finished(h) /\ info_logs[h] = 1
        /\ cur # h /\ pc = "try"

\* C7: a handle whose engine-owned directory is already absent gets exactly
\* one rmtree call, no sleep and no diagnostic; nothing is raised and the for
\* loop goes on to the remaining handles.
C7_AbsentDirOneAttempt ==
    \A h \in registry :
        (OwnsDir(h) /\ ~dir_at_call[h]) =>
            /\ rmtree_calls[h] <= 1
            /\ sleeps[h] = 0
            /\ debug_logs[h] = 0
            /\ LoopOver(h) =>
                  /\ rmtree_calls[h] = 1
                  /\ ~(pc = "raised" /\ cur = h)
                  /\ Finished(h) \/ (cur = h /\ pc = "info")

\* H2 (stopped, directory gone) is done with after one call, and the for loop
\* is at H1, which had to be stopped and whose directory is there
C7_Witness ==
    \E h1, h2 \in registry :
        /\ h1 # h2
        /\ OwnsDir(h2) /\ ~dir_at_call[h2] /\ stop_calls[h2] = 0
        /\ Finished(h2) /\ rmtree_calls[h2] = 1 /\ last_error = "FileNotFoundError"
        /\ OwnsDir(h1) /\ dir_at_call[h1] /\ stop_calls[h1] = 1
        /\ cur = h1 /\ pc = "try"

\* C9: shutil.rmtree is called only for handles whose directory is
\* engine-owned; a caller-supplied directory is never removed.
C9_OnlyOwnedDirRemoved ==
    \A h \in registry :
        /\ rmtree_calls[h] > 0 => config[h] = "owned"
        /\ config[h] = "custom" => dir_exists[h]

\* the drain returned after removing an owned directory and passing over a
\* caller-supplied one, whose handle it had to stop
C9_Witness ==
    /\ pc = "done"
    /\ \E h1, h2 \in registry :
          /\ config[h1] = "custom" /\ stop_calls[h1] = 1 /\ info_logs[h1] = 1
          /\ config[h2] = "owned" /\ rmtree_ok[h2] = 1

\* C10: once an rmtree call for a handle has returned without error, no
\* further rmtree call is issued for that handle.
C10_NoCallAfterSuccess ==
    \A h \in registry : after_ok[h] = 0

----------------------------------------------------------------------------
(* Specifications *)

RegistryQuiet ==
    /\ registry = {}
    /\ stopped = [h \in Handles |-> TRUE]
    /\ config = [h \in Handles |-> "None"]
    /\ dir_exists = [h \in Handles |-> FALSE]
    /\ pc = "unused"
    /\ todo = {}
    /\ cur = 0
    /\ attempt = 0
    /\ exc = ""
    /\ dir_at_call = [h \in Handles |-> FALSE]
    /\ stop_calls = [h \in Handles |-> 0]
    /\ rmtree_calls = [h \in Handles |-> 0]
    /\ rmtree_ok = [h \in Handles |-> 0]
    /\ after_ok = [h \in Handles |-> 0]
    /\ only_locked = [h \in Handles |-> TRUE]
    /\ last_error = ""
    /\ sleeps = [h \in Handles |-> 0]
    /\ debug_logs = [h \in Handles |-> 0]
    /\ info_logs = [h \in Handles |-> 0]

TreeQuiet ==
    /\ nodes = {0}
    /\ children = [k \in Addresses |-> <<>>]
    /\ backend_node_id = [k \in Addresses |-> 1]
    /\ predicate = {}
    /\ fn = "unused"
    /\ doc = 0
    /\ node_id = 0
    /\ out = <<>>
    /\ raised = ""

HtmlQuiet ==
    /\ is_element = [k \in Addresses |-> FALSE]
    /\ frames = <<>>
    /\ pending = <<>>
    /\ last_latency = 0
    /\ slower_first = FALSE

InitTree(max) ==
    /\ \E n \in 0..max : \E par \in Shapes(n) :
          /\ nodes = 0..n
          /\ children = HeapOf(n, par)
    /\ fn = "idle"
    /\ doc = 0
    /\ node_id = 0
    /\ out = <<>>
    /\ raised = ""

InitFind ==
    /\ InitTree(MaxNodes)
    /\ HtmlQuiet
    /\ RegistryQuiet
    /\ predicate \in SUBSET nodes
    /\ backend_node_id = [k \in Addresses |-> 1]

NextFind == FilterRecurseAll \/ FilterRecurse

SpecFind == InitFind /\ [][NextFind]_vars

InitRemove ==
    /\ InitTree(MaxNodes)
    /\ HtmlQuiet
    /\ RegistryQuiet
    /\ predicate = {}
    /\ backend_node_id \in [Addresses -> Ids]
    /\ \A k \in Addresses \ nodes : backend_node_id[k] = 1

NextRemove == RemoveFromTree

SpecRemove == InitRemove /\ [][NextRemove]_vars

InitHtml ==
    /\ InitTree(MaxHtmlNodes)
    /\ predicate = {}
    /\ backend_node_id = [k \in Addresses |-> MaxNodes + 1 + k]
    /\ is_element \in [Addresses -> BOOLEAN]
    /\ \A k \in Addresses \ nodes : ~is_element[k]
    /\ frames = <<>>
    /\ pending = <<>>
    /\ last_latency = 0
    /\ slower_first = FALSE
    /\ RegistryQuiet

NextHtml ==
    \/ HtmlCall
    \/ HtmlRequest
    \/ HtmlTick
    \/ HtmlResponse
    \/ HtmlFetchError
    \/ HtmlReturn

SpecHtml == InitHtml /\ [][NextHtml]_vars

\* The registry holds handles 1..n; a handle without a config, or with a
\* caller-supplied directory, has no directory of its own on disk to lose.
InitDrain ==
    /\ TreeQuiet
    /\ HtmlQuiet
    /\ \E n \in 0..MaxHandles : registry = 1..n
    /\ stopped \in [Handles -> BOOLEAN]
    /\ config \in [Handles -> {"None", "custom", "owned"}]
    /\ dir_exists \in [Handles -> BOOLEAN]
    /\ \A h \in Handles :
          /\ h \notin registry => stopped[h] /\ config[h] = "None"
          /\ config[h] = "None" => ~dir_exists[h]
          /\ config[h] = "custom" => dir_exists[h]
    /\ pc = "idle"
    /\ todo = {}
    /\ cur = 0
    /\ attempt = 0
    /\ exc = ""
    /\ dir_at_call = dir_exists
    /\ stop_calls = [h \in Handles |-> 0]
    /\ rmtree_calls = [h \in Handles |-> 0]
    /\ rmtree_ok = [h \in Handles |-> 0]
    /\ after_ok = [h \in Handles |-> 0]
    /\ only_locked = [h \in Handles |-> TRUE]
    /\ last_error = ""
    /\ sleeps = [h \in Handles |-> 0]
    /\ debug_logs = [h \in Handles |-> 0]
    /\ info_logs = [h \in Handles |-> 0]

NextDrain ==
    \/ DrainCall
    \/ DrainNext
    \/ DrainReturn
    \/ DrainStop
    \/ DrainTry
    \/ DrainSleep
    \/ DrainInfo

SpecDrain == InitDrain /\ [][NextDrain]_vars

Init == InitFind \/ InitRemove \/ InitHtml \/ InitDrain

Next == NextFind \/ NextRemove \/ NextHtml \/ NextDrain

Spec == Init /\ [][Next]_vars

====
